---- MODULE Spec2Model ----
(***************************************************************************)
(* Model of the request-processing workflows of agent_practice:            *)
(*   task4_langgraph_workflow/support_workflow.py  (compiled graph and     *)
(*       MockSupportWorkflow.process_request),                             *)
(*   task4_langgraph_workflow/hf_workflow.py       (GeminiWorkflow.run),   *)
(*   task4_langgraph_workflow/simple_workflow.py   (WorkflowAgent),        *)
(*   task5_fastapi_deployment/production_api.py    (ProductionAgent).      *)
(*                                                                         *)
(* A Python str is a sequence of pieces whose concatenation is the string. *)
(* User messages and generated texts are sequences of one-character        *)
(* pieces, so len(), lower(), strip() and the "in" substring test are      *)
(* computed on characters.  Response templates are one piece each.         *)
(* An Optional[str] response is a sequence of length 0 (None) or 1.        *)
(***************************************************************************)
EXTENDS Integers, Sequences, FiniteSets, TLC

VARIABLES workflow, use_llm, state, pc, trace, gen_outcome, in_except,
          runs, hashes, metrics, calls

vars == <<workflow, use_llm, state, pc, trace, gen_outcome, in_except,
          runs, hashes, metrics, calls>>

----------------------------------------------------------------------------
(* Bounds of the model and constants of the program *)

MaxWords == 2
PadLen == 999
MaxCalls == 3

MinMessageLen == 2
MaxMessageLen == 1000
AgentMinLen == 5
TicketModulus == 10000

----------------------------------------------------------------------------
(* Python values *)

None == "None"

Truthy(v) == v /= None /\ v /= ""

NoResponse == << >>

Some(text) == << text >>

OrEmpty(r) == IF r = NoResponse THEN << >> ELSE r[1]

TruthyText(r) == r /= NoResponse /\ r[1] /= << >>

----------------------------------------------------------------------------
(* str.lower(), str.strip(), len() and the substring test *)

UpperCase == <<"A","B","C","D","E","F","G","H","I","J","K","L","M",
               "N","O","P","Q","R","S","T","U","V","W","X","Y","Z">>

LowerCase == <<"a","b","c","d","e","f","g","h","i","j","k","l","m",
               "n","o","p","q","r","s","t","u","v","w","x","y","z">>

LowerChar(c) ==
    IF \E i \in 1..26 : UpperCase[i] = c
    THEN LowerCase[CHOOSE i \in 1..26 : UpperCase[i] = c]
    ELSE c

lower(s) == [i \in 1..Len(s) |-> LowerChar(s[i])]

WhiteSpace == {" ", "\t", "\n", "\r"}

strip(s) ==
    LET keep == {i \in 1..Len(s) : s[i] \notin WhiteSpace}
    IN  IF keep = {} THEN << >>
        ELSE LET lo == CHOOSE i \in keep : \A j \in 1..(i - 1) : j \notin keep
                 hi == CHOOSE i \in keep : \A j \in (i + 1)..Len(s) : j \notin keep
             IN  SubSeq(s, lo, hi)

\* word in message
In(word, message) ==
    \/ Len(word) = 0
    \/ \E i \in 1..(Len(message) - Len(word) + 1) :
          /\ message[i] = word[1]
          /\ SubSeq(message, i, i + Len(word) - 1) = word

\* any(word in message for word in words)
AnyIn(words, message) == \E k \in 1..Len(words) : In(words[k], message)

----------------------------------------------------------------------------
(* Keyword lists *)

AuthWords == << <<"p","a","s","s","w","o","r","d">>,
                <<"l","o","g","i","n">>,
                <<"a","c","c","e","s","s">> >>

BillingWords == << <<"b","i","l","l","i","n","g">>,
                   <<"p","a","y","m","e","n","t">>,
                   <<"i","n","v","o","i","c","e">> >>

TechnicalWords == << <<"b","u","g">>,
                     <<"e","r","r","o","r">>,
                     <<"c","r","a","s","h">>,
                     <<"b","r","o","k","e","n">> >>

ComplaintWords == << <<"a","n","g","r","y">>,
                     <<"f","r","u","s","t","r","a","t","e","d">>,
                     <<"t","e","r","r","i","b","l","e">> >>

EscalationWords == << <<"m","a","n","a","g","e","r">>,
                      <<"s","u","p","e","r","v","i","s","o","r">>,
                      <<"h","u","m","a","n">> >>

----------------------------------------------------------------------------
(* Inputs: messages are concatenations of at most MaxWords vocabulary words *)

Pad == [i \in 1..PadLen |-> "z"]

Req002Message ==
    <<"T","h","i","s"," ","a","p","p"," ","i","s"," ",
      "t","e","r","r","i","b","l","e","!"," ","I","t"," ",
      "k","e","e","p","s"," ","c","r","a","s","h","i","n","g","!">>

Vocabulary ==
    { <<"H","i">>,
      <<"x">>,
      <<" ">>,
      <<"p","a","s","s","w","o","r","d">>,
      <<"b","i","l","l","i","n","g">>,
      <<"c","r","a","s","h">>,
      <<"t","e","r","r","i","b","l","e">>,
      <<"M","a","n","a","g","e","r">>,
      <<"u","r","g","e","n","t">>,
      Req002Message,
      Pad }

RECURSIVE Concats(_)
Concats(n) ==
    IF n = 0 THEN { << >> }
    ELSE LET shorter == Concats(n - 1)
         IN  shorter \cup { p \o w : p \in shorter, w \in Vocabulary }

Messages == Concats(MaxWords)

RequestIds == {"REQ001", "REQ002"}

\* hash(str) is salted per process: any integer
HashValues == {-7, 0, 123456}

----------------------------------------------------------------------------
(* support_workflow.py: the state record and the stages *)

SupportWorkflowState(request_id, user_message) ==
    [ request_id     |-> request_id,
      user_message   |-> user_message,
      category       |-> None,
      priority       |-> None,
      response       |-> NoResponse,
      escalated      |-> FALSE,
      ticket_created |-> FALSE,
      error_message  |-> None,
      step_count     |-> 0 ]

\* validate_request without the upper length limit
validate_request_NoMaximum(s) ==
    LET message == s.user_message
    IN  IF Len(message) = 0 \/ Len(strip(message)) = 0
        THEN [s EXCEPT !.error_message = "Message is empty"]
        ELSE IF Len(message) < MinMessageLen
        THEN [s EXCEPT !.error_message = "Message too short"]
        ELSE [s EXCEPT !.step_count = s.step_count + 1]

validate_request(s) ==
    LET message == s.user_message
    IN  IF Len(message) = 0 \/ Len(strip(message)) = 0
        THEN [s EXCEPT !.error_message = "Message is empty"]
        ELSE IF Len(message) < MinMessageLen
        THEN [s EXCEPT !.error_message = "Message too short"]
        ELSE IF Len(message) > MaxMessageLen
        THEN [s EXCEPT !.error_message = "Message too long (max 1000 characters)"]
        ELSE [s EXCEPT !.step_count = s.step_count + 1]

\* categorize_request with the complaint group tested before the technical one
categorize_request_ComplaintFirst(s) ==
    LET message == lower(s.user_message)
        labelled ==
            IF AnyIn(AuthWords, message)
            THEN [s EXCEPT !.category = "authentication", !.priority = "medium"]
            ELSE IF AnyIn(BillingWords, message)
            THEN [s EXCEPT !.category = "billing", !.priority = "high"]
            ELSE IF AnyIn(ComplaintWords, message)
            THEN [s EXCEPT !.category = "complaint", !.priority = "urgent"]
            ELSE IF AnyIn(TechnicalWords, message)
            THEN [s EXCEPT !.category = "technical", !.priority = "high"]
            ELSE [s EXCEPT !.category = "general", !.priority = "low"]
    IN  [labelled EXCEPT !.step_count = s.step_count + 1]

\* categorize_request labelling the unmatched message with a priority only
categorize_request_NoGeneralLabel(s) ==
    LET message == lower(s.user_message)
        labelled ==
            IF AnyIn(AuthWords, message)
            THEN [s EXCEPT !.category = "authentication", !.priority = "medium"]
            ELSE IF AnyIn(BillingWords, message)
            THEN [s EXCEPT !.category = "billing", !.priority = "high"]
            ELSE IF AnyIn(TechnicalWords, message)
            THEN [s EXCEPT !.category = "technical", !.priority = "high"]
            ELSE IF AnyIn(ComplaintWords, message)
            THEN [s EXCEPT !.category = "complaint", !.priority = "urgent"]
            ELSE [s EXCEPT !.priority = "low"]
    IN  [labelled EXCEPT !.step_count = s.step_count + 1]

categorize_request(s) ==
    LET message == lower(s.user_message)
        labelled ==
            IF AnyIn(AuthWords, message)
            THEN [s EXCEPT !.category = "authentication", !.priority = "medium"]
            ELSE IF AnyIn(BillingWords, message)
            THEN [s EXCEPT !.category = "billing", !.priority = "high"]
            ELSE IF AnyIn(TechnicalWords, message)
            THEN [s EXCEPT !.category = "technical", !.priority = "high"]
            ELSE IF AnyIn(ComplaintWords, message)
            THEN [s EXCEPT !.category = "complaint", !.priority = "urgent"]
            ELSE [s EXCEPT !.category = "general", !.priority = "low"]
    IN  [labelled EXCEPT !.step_count = s.step_count + 1]

SupportTemplates ==
    [ authentication |-> "To reset your password, please click 'Forgot Password' on the login page and follow the instructions.",
      billing        |-> "For billing inquiries, please check your account settings or contact our billing team at billing@company.com",
      technical      |-> "I've logged this technical issue for our engineering team. You should receive an update within 24 hours.",
      complaint      |-> "I sincerely apologize for your experience. Let me escalate this to our customer success team immediately.",
      general        |-> "Thank you for contacting us. I'll make sure you get the help you need." ]

generate_response(s) ==
    LET category == IF Truthy(s.category) THEN s.category ELSE "general"
        text == IF category \in DOMAIN SupportTemplates
                THEN SupportTemplates[category]
                ELSE "Thank you for your message. We'll get back to you soon."
    IN  [s EXCEPT !.response = Some(<<text>>),
                  !.step_count = s.step_count + 1]

\* check_escalation_needed without the keyword test
check_escalation_needed_NoKeywords(s) ==
    LET escalation_needed ==
            \/ s.priority \in {"urgent", "high"}
            \/ s.category \in {"complaint", "technical"}
    IN  [s EXCEPT !.escalated = escalation_needed,
                  !.step_count = s.step_count + 1]

\* check_escalation_needed escalating medium priority as well
check_escalation_needed_MediumEscalates(s) ==
    LET escalation_needed ==
            \/ s.priority \in {"urgent", "high", "medium"}
            \/ s.category \in {"complaint", "technical"}
            \/ AnyIn(EscalationWords, lower(s.user_message))
    IN  [s EXCEPT !.escalated = escalation_needed,
                  !.step_count = s.step_count + 1]

check_escalation_needed(s) ==
    LET escalation_needed ==
            \/ s.priority \in {"urgent", "high"}
            \/ s.category \in {"complaint", "technical"}
            \/ AnyIn(EscalationWords, lower(s.user_message))
    IN  [s EXCEPT !.escalated = escalation_needed,
                  !.step_count = s.step_count + 1]

TicketNotice(ticket_id) ==
    <<"\n\nSupport ticket ">> \o ticket_id
        \o <<" has been created. A human agent will contact you within 2 hours.">>

\* create_ticket assigning the notice instead of appending it
create_ticket_Replaces(s, h) ==
    LET ticket_id == <<"TICKET-", ToString(h % TicketModulus)>>
    IN  [s EXCEPT !.ticket_created = TRUE,
                  !.response = Some(TicketNotice(ticket_id)),
                  !.step_count = s.step_count + 1]

\* h is the value hash(state['user_message']) takes in this process
create_ticket(s, h) ==
    LET ticket_id == <<"TICKET-", ToString(h % TicketModulus)>>
        current_response == OrEmpty(s.response)
    IN  [s EXCEPT !.ticket_created = TRUE,
                  !.response = Some(current_response \o TicketNotice(ticket_id)),
                  !.step_count = s.step_count + 1]

Apology(error_message) ==
    <<"I'm sorry, there was an issue processing your request: ",
      error_message,
      ". Please try again or contact support directly.">>

\* handle_error assigning False where it means True
handle_error_ClearsEscalation(s) ==
    [s EXCEPT !.response = Some(Apology(s.error_message)),
              !.escalated = FALSE,
              !.step_count = s.step_count + 1]

handle_error(s) ==
    [s EXCEPT !.response = Some(Apology(s.error_message)),
              !.escalated = TRUE,
              !.step_count = s.step_count + 1]

send_response(s) ==
    [s EXCEPT !.step_count = s.step_count + 1]

\* should_escalate with the two labels exchanged
should_escalate_Swapped(s) == IF s.escalated THEN "respond" ELSE "escalate"

should_escalate(s) == IF s.escalated THEN "escalate" ELSE "respond"

\* has_error reading a key the stages never write
has_error_WrongKey(s) == "continue"

has_error(s) == IF Truthy(s.error_message) THEN "error" ELSE "continue"

----------------------------------------------------------------------------
(* The two executors of the support workflow *)

\* the graph with create_ticket wired to END
GraphNext_TicketEnds(node, s) ==
    CASE node = "validate" ->
            IF has_error(s) = "error" THEN "handle_error" ELSE "categorize"
      [] node = "categorize" -> "generate_response"
      [] node = "generate_response" -> "check_escalation"
      [] node = "check_escalation" ->
            IF should_escalate(s) = "escalate" THEN "create_ticket"
            ELSE "send_response"
      [] node = "create_ticket" -> "END"
      [] node = "send_response" -> "END"
      [] node = "handle_error" -> "END"

\* the graph with handle_error wired to send_response
GraphNext_ErrorSends(node, s) ==
    CASE node = "validate" ->
            IF has_error(s) = "error" THEN "handle_error" ELSE "categorize"
      [] node = "categorize" -> "generate_response"
      [] node = "generate_response" -> "check_escalation"
      [] node = "check_escalation" ->
            IF should_escalate(s) = "escalate" THEN "create_ticket"
            ELSE "send_response"
      [] node = "create_ticket" -> "send_response"
      [] node = "send_response" -> "END"
      [] node = "handle_error" -> "send_response"

\* the graph with send_response wired back to validate
GraphNext_SendRestarts(node, s) ==
    CASE node = "validate" ->
            IF has_error(s) = "error" THEN "handle_error" ELSE "categorize"
      [] node = "categorize" -> "generate_response"
      [] node = "generate_response" -> "check_escalation"
      [] node = "check_escalation" ->
            IF should_escalate(s) = "escalate" THEN "create_ticket"
            ELSE "send_response"
      [] node = "create_ticket" -> "send_response"
      [] node = "send_response" -> "validate"
      [] node = "handle_error" -> "END"

\* create_support_workflow: the node reached after `node` ran and left s
GraphNext(node, s) ==
    CASE node = "validate" ->
            IF has_error(s) = "error" THEN "handle_error" ELSE "categorize"
      [] node = "categorize" -> "generate_response"
      [] node = "generate_response" -> "check_escalation"
      [] node = "check_escalation" ->
            IF should_escalate(s) = "escalate" THEN "create_ticket"
            ELSE "send_response"
      [] node = "create_ticket" -> "send_response"
      [] node = "send_response" -> "END"
      [] node = "handle_error" -> "END"

\* process_request sending the response before it creates the ticket
MockNext_SendThenTicket(node, s) ==
    CASE node = "validate" ->
            IF Truthy(s.error_message) THEN "handle_error" ELSE "categorize"
      [] node = "categorize" -> "generate_response"
      [] node = "generate_response" -> "check_escalation"
      [] node = "check_escalation" -> "send_response"
      [] node = "send_response" ->
            IF s.escalated /\ ~s.ticket_created THEN "create_ticket" ELSE "END"
      [] node = "create_ticket" -> "END"
      [] node = "handle_error" -> "END"

\* MockSupportWorkflow.process_request: the statement reached after `node`
MockNext(node, s) ==
    CASE node = "validate" ->
            IF Truthy(s.error_message) THEN "handle_error" ELSE "categorize"
      [] node = "categorize" -> "generate_response"
      [] node = "generate_response" -> "check_escalation"
      [] node = "check_escalation" ->
            IF s.escalated THEN "create_ticket" ELSE "send_response"
      [] node = "create_ticket" -> "send_response"
      [] node = "send_response" -> "END"
      [] node = "handle_error" -> "END"

SupportExecutors == {"graph", "mock"}

NextNode(node, s) ==
    IF workflow = "graph" THEN GraphNext(node, s) ELSE MockNext(node, s)

\* one stage of a support run: apply it, record it, follow the edge
RunStage(node, after) ==
    /\ workflow \in SupportExecutors
    /\ pc = node
    /\ state' = after
    /\ trace' = Append(trace, node)
    /\ pc' = NextNode(node, after)
    /\ UNCHANGED <<metrics, calls, runs, hashes, workflow, use_llm,
                   gen_outcome, in_except>>

Validate == RunStage("validate", validate_request(state))

Categorize == RunStage("categorize", categorize_request(state))

Respond == RunStage("generate_response", generate_response(state))

CheckEscalation == RunStage("check_escalation", check_escalation_needed(state))

CreateTicket ==
    \E h \in HashValues : RunStage("create_ticket", create_ticket(state, h))

SendResponse == RunStage("send_response", send_response(state))

HandleError == RunStage("handle_error", handle_error(state))

----------------------------------------------------------------------------
(* The generation call shared by hf_workflow.py and simple_workflow.py *)

FailureKinds == {"transport_failure", "http_error", "no_candidates", "no_parts"}

GeneratedTexts == { << >>, <<" ">>, <<"O","K">>, <<" ","O","K","\n">> }

\* what requests.post / raise_for_status / response.json() can produce
GenOutcomes ==
    { [kind |-> k, text |-> << >>] : k \in FailureKinds }
        \cup { [kind |-> "text", text |-> t] : t \in GeneratedTexts }

\* the statements shared by both callers, up to parts = ...get("parts", []):
\* an exception, or the list of parts of the first candidate
CallParts(outcome) ==
    IF outcome.kind \in {"transport_failure", "http_error", "no_candidates"}
    THEN [raised |-> TRUE, parts |-> << >>]
    ELSE IF outcome.kind = "no_parts"
    THEN [raised |-> FALSE, parts |-> << >>]
    ELSE [raised |-> FALSE, parts |-> << outcome.text >>]

----------------------------------------------------------------------------
(* hf_workflow.py: GeminiWorkflow.  WorkflowState.message is user_message. *)

GeminiAuthWords == << <<"p","a","s","s","w","o","r","d">>,
                      <<"l","o","g","i","n">>,
                      <<"a","u","t","h">> >>

GeminiBillingWords == << <<"b","i","l","l">>,
                         <<"p","a","y","m","e","n","t">>,
                         <<"c","h","a","r","g","e">> >>

GeminiTechnicalWords == << <<"b","u","g">>,
                           <<"e","r","r","o","r">>,
                           <<"b","r","o","k","e","n">> >>

UrgencyWords == << <<"u","r","g","e","n","t">>,
                   <<"a","s","a","p">>,
                   <<"c","r","i","t","i","c","a","l">> >>

GeminiEscalationWords == << <<"a","n","g","r","y">>,
                            <<"f","r","u","s","t","r","a","t","e","d">>,
                            <<"m","a","n","a","g","e","r">> >>

GeminiWorkflow_categorize(s) ==
    LET message_lower == lower(s.user_message)
    IN  IF AnyIn(GeminiAuthWords, message_lower)
        THEN [s EXCEPT !.category = "authentication"]
        ELSE IF AnyIn(GeminiBillingWords, message_lower)
        THEN [s EXCEPT !.category = "billing"]
        ELSE IF AnyIn(GeminiTechnicalWords, message_lower)
        THEN [s EXCEPT !.category = "technical"]
        ELSE [s EXCEPT !.category = "general"]

GeminiWorkflow_set_priority(s) ==
    LET message_lower == lower(s.user_message)
    IN  IF AnyIn(UrgencyWords, message_lower)
        THEN [s EXCEPT !.priority = "high"]
        ELSE IF s.category \in {"billing", "technical"}
        THEN [s EXCEPT !.priority = "medium"]
        ELSE [s EXCEPT !.priority = "low"]

\* _get_llm_response: the text returned, or an exception
GeminiWorkflow_get_llm_response(outcome) ==
    LET call == CallParts(outcome)
    IN  IF call.raised THEN [raised |-> TRUE, text |-> << >>]
        ELSE IF call.parts /= << >>
        THEN [raised |-> FALSE, text |-> strip(call.parts[1])]
        ELSE [raised |-> TRUE, text |-> << >>]

GeminiTemplates ==
    [ authentication |-> "To reset your password, click 'Forgot Password' on the login page.",
      billing        |-> "For billing questions, contact billing@company.com or check your account settings.",
      technical      |-> "Please describe the issue in detail and we'll investigate. You can also check our troubleshooting guide.",
      general        |-> "Thanks for contacting us. How can we help you today?" ]

GeminiWorkflow_get_fallback_response(s) ==
    LET key == IF Truthy(s.category) THEN s.category ELSE ""
    IN  IF key \in DOMAIN GeminiTemplates THEN << GeminiTemplates[key] >>
        ELSE << "We're here to help!" >>

\* generate_response catching only the exceptions of requests
GeminiWorkflow_generate_response_NarrowExcept(s, llm, outcome) ==
    LET answer == GeminiWorkflow_get_llm_response(outcome)
    IN  IF llm /\ ~answer.raised
        THEN [raised |-> FALSE, state |-> [s EXCEPT !.response = Some(answer.text)]]
        ELSE IF llm /\ outcome.kind \in {"no_candidates", "no_parts"}
        THEN [raised |-> TRUE, state |-> s]
        ELSE [raised |-> FALSE,
              state |-> [s EXCEPT !.response =
                                    Some(GeminiWorkflow_get_fallback_response(s))]]

\* the stage's result: the state it leaves, and whether an exception left it
GeminiWorkflow_generate_response(s, llm, outcome) ==
    LET answer == GeminiWorkflow_get_llm_response(outcome)
    IN  IF llm /\ ~answer.raised
        THEN [raised |-> FALSE, state |-> [s EXCEPT !.response = Some(answer.text)]]
        ELSE [raised |-> FALSE,
              state |-> [s EXCEPT !.response =
                                    Some(GeminiWorkflow_get_fallback_response(s))]]

EscalationSentence ==
    << "\n\nI'm escalating this to a senior agent who will contact you shortly." >>

GeminiWorkflow_check_escalation(s) ==
    IF AnyIn(GeminiEscalationWords, lower(s.user_message))
    THEN IF TruthyText(s.response)
         THEN [s EXCEPT !.escalated = TRUE,
                        !.response = Some(s.response[1] \o EscalationSentence)]
         ELSE [s EXCEPT !.escalated = TRUE]
    ELSE s

\* GeminiWorkflow.run: the four stages in order
GeminiNext(node) ==
    CASE node = "categorize" -> "set_priority"
      [] node = "set_priority" -> "generate_response"
      [] node = "generate_response" -> "check_escalation"
      [] node = "check_escalation" -> "END"

GeminiStage(node, after) ==
    /\ workflow = "gemini"
    /\ pc = node
    /\ state' = after
    /\ trace' = Append(trace, node)
    /\ pc' = GeminiNext(node)
    /\ UNCHANGED <<metrics, calls, runs, hashes, workflow, use_llm,
                   in_except>>

GeminiCategorize ==
    /\ GeminiStage("categorize", GeminiWorkflow_categorize(state))
    /\ UNCHANGED gen_outcome

GeminiSetPriority ==
    /\ GeminiStage("set_priority", GeminiWorkflow_set_priority(state))
    /\ UNCHANGED gen_outcome

GeminiGenerate ==
    /\ workflow = "gemini"
    /\ pc = "generate_response"
    /\ \E outcome \in GenOutcomes :
          LET result == GeminiWorkflow_generate_response(state, use_llm, outcome)
          IN  /\ state' = result.state
              /\ pc' = IF result.raised THEN "RAISED"
                       ELSE GeminiNext("generate_response")
              /\ gen_outcome' = IF use_llm THEN outcome.kind ELSE "not_called"
    /\ trace' = Append(trace, "generate_response")
    /\ UNCHANGED <<metrics, calls, runs, hashes, workflow, use_llm,
                   in_except>>

GeminiCheckEscalation ==
    /\ GeminiStage("check_escalation", GeminiWorkflow_check_escalation(state))
    /\ UNCHANGED gen_outcome

----------------------------------------------------------------------------
(* simple_workflow.py: WorkflowAgent.  state.data["message"] is            *)
(* user_message, data["error"] is error_message; an absent key is None.    *)

WorkflowAgent_validate_input(s) ==
    IF Len(s.user_message) < AgentMinLen
    THEN [s EXCEPT !.error_message = "Message too short"]
    ELSE s

WorkflowAgent_categorize_request(s) ==
    LET message == lower(s.user_message)
    IN  IF In(<<"p","a","s","s","w","o","r","d">>, message)
        THEN [s EXCEPT !.category = "auth"]
        ELSE IF In(<<"b","i","l","l","i","n","g">>, message)
        THEN [s EXCEPT !.category = "billing"]
        ELSE [s EXCEPT !.category = "general"]

AgentTemplates ==
    [ auth    |-> "Reset your password on the login page",
      billing |-> "Contact billing@company.com",
      general |-> "Thanks for contacting us" ]

AgentFallback(s) ==
    IF s.category \in DOMAIN AgentTemplates THEN << AgentTemplates[s.category] >>
    ELSE << "We'll help you" >>

WorkflowAgent_generate_response(s, llm, outcome) ==
    LET call == CallParts(outcome)
    IN  IF llm /\ ~call.raised /\ call.parts /= << >>
        THEN [raised |-> FALSE,
              state |-> [s EXCEPT !.response = Some(strip(call.parts[1]))]]
        ELSE [raised |-> FALSE,
              state |-> [s EXCEPT !.response = Some(AgentFallback(s))]]

\* WorkflowAgent.run_workflow: the three stages in order
AgentNext(node) ==
    CASE node = "validate_input" -> "categorize_request"
      [] node = "categorize_request" -> "generate_response"
      [] node = "generate_response" -> "END"

\* what run_workflow returns from the state the last stage left
WorkflowAgent_run_workflow(s) ==
    IF s.response = NoResponse THEN << "Error processing request" >>
    ELSE s.response[1]

AgentValidate ==
    /\ workflow = "agent"
    /\ pc = "validate_input"
    /\ state' = WorkflowAgent_validate_input(state)
    /\ trace' = Append(trace, "validate_input")
    /\ pc' = AgentNext("validate_input")
    /\ UNCHANGED <<metrics, calls, runs, hashes, workflow, use_llm,
                   gen_outcome, in_except>>

AgentCategorize ==
    /\ workflow = "agent"
    /\ pc = "categorize_request"
    /\ state' = WorkflowAgent_categorize_request(state)
    /\ trace' = Append(trace, "categorize_request")
    /\ pc' = AgentNext("categorize_request")
    /\ UNCHANGED <<metrics, calls, runs, hashes, workflow, use_llm,
                   gen_outcome, in_except>>

AgentGenerate ==
    /\ workflow = "agent"
    /\ pc = "generate_response"
    /\ \E outcome \in GenOutcomes :
          LET result == WorkflowAgent_generate_response(state, use_llm, outcome)
          IN  /\ state' = result.state
              /\ pc' = IF result.raised THEN "RAISED"
                       ELSE AgentNext("generate_response")
              /\ gen_outcome' = IF use_llm THEN outcome.kind ELSE "not_called"
    /\ trace' = Append(trace, "generate_response")
    /\ UNCHANGED <<metrics, calls, runs, hashes, workflow, use_llm,
                   in_except>>

----------------------------------------------------------------------------
(* task5_fastapi_deployment/production_api.py: ProductionAgent.  One agent *)
(* serves every /chat request on one event loop, so a call of              *)
(* process_message runs without interruption except where it awaits: a     *)
(* call is one step up to the await of line 96 and one step from there to  *)
(* its return.                                                             *)

CallIds == 1..MaxCalls

NoMetrics ==
    [ total_requests       |-> 0,
      successful_responses |-> 0,
      escalations          |-> 0,
      errors               |-> 0 ]

FaqKeys == << <<"p","a","s","s","w","o","r","d">>,
              <<"b","i","l","l","i","n","g">>,
              <<"s","h","i","p","p","i","n","g">>,
              <<"r","e","t","u","r","n">>,
              <<"c","a","n","c","e","l">> >>

FaqAnswers ==
    << "To reset your password, click 'Forgot Password' on the login page.",
       "For billing questions, contact billing@company.com.",
       "Standard shipping takes 3-5 business days.",
       "You can return items within 30 days. Go to Orders > Return Item.",
       "To cancel your order, go to Orders and click 'Cancel'." >>

escalation_keywords == << <<"a","n","g","r","y">>,
                          <<"f","r","u","s","t","r","a","t","e","d">>,
                          <<"c","o","m","p","l","a","i","n","t">>,
                          <<"t","e","r","r","i","b","l","e">>,
                          <<"m","a","n","a","g","e","r">> >>

\* ChatRequest.message: 1 to 1000 characters
ChatMessages ==
    { <<"x">>,
      <<"p","a","s","s","w","o","r","d">>,
      <<"M","a","n","a","g","e","r">>,
      <<"r","e","f","u","n","d">> }

ProductionAgent_get_fallback_response(message_lower) ==
    IF AnyIn(<< <<"s","h","i","p">>, <<"d","e","l","i","v","e","r","y">>,
                <<"t","r","a","c","k">> >>, message_lower)
    THEN << "Track your order in 'My Orders'. Standard shipping takes 3-5 business days." >>
    ELSE IF AnyIn(<< <<"r","e","f","u","n","d">>,
                     <<"m","o","n","e","y"," ","b","a","c","k">> >>, message_lower)
    THEN << "Refunds are processed within 5-7 business days after we receive the return." >>
    ELSE << "I can help with passwords, billing, returns, and shipping. What do you need?" >>

\* _get_llm_response: the text returned, or an exception
ProductionAgent_get_llm_response(outcome) ==
    LET call == CallParts(outcome)
    IN  IF call.raised THEN [raised |-> TRUE, text |-> << >>]
        ELSE IF call.parts /= << >>
        THEN [raised |-> FALSE, text |-> strip(call.parts[1])]
        ELSE [raised |-> TRUE, text |-> << >>]

\* ChatResponse(response=...): the field is a required str
ChatResponse_raises(response_text) == response_text = NoResponse

\* lines 107-122 with the increment of line 107 inside the else branch
ProductionAgent_finish_CountsAnswersOnly(met, response_text, escalated, confidence) ==
    LET succeeded == IF escalated THEN met
                     ELSE [met EXCEPT !.successful_responses = @ + 1]
    IN  IF ChatResponse_raises(response_text)
        THEN [ at |-> "HTTPException",
               metrics |-> [succeeded EXCEPT !.errors = @ + 1],
               response |-> NoResponse, escalated |-> escalated,
               confidence |-> confidence ]
        ELSE [ at |-> "returned", metrics |-> succeeded,
               response |-> response_text, escalated |-> escalated,
               confidence |-> confidence ]

\* lines 107-122: count the success, build the ChatResponse; an exception
\* of either is counted as an error and becomes the HTTPException
ProductionAgent_finish(met, response_text, escalated, confidence) ==
    LET succeeded == [met EXCEPT !.successful_responses = @ + 1]
    IN  IF ChatResponse_raises(response_text)
        THEN [ at |-> "HTTPException",
               metrics |-> [succeeded EXCEPT !.errors = @ + 1],
               response |-> NoResponse, escalated |-> escalated,
               confidence |-> confidence ]
        ELSE [ at |-> "returned", metrics |-> succeeded,
               response |-> response_text, escalated |-> escalated,
               confidence |-> confidence ]

\* lines 103-105
OrFallback(answer, message_lower) ==
    IF TruthyText(answer.text) THEN answer
    ELSE [ text |-> Some(ProductionAgent_get_fallback_response(message_lower)),
           confidence |-> 60 ]

\* process_message up to the await of line 96, or to its return when it
\* does not call the model
ProductionAgent_process_message(met, message, llm) ==
    LET counted == [met EXCEPT !.total_requests = @ + 1]
        message_lower == lower(message)
        escalated == AnyIn(escalation_keywords, message_lower)
        hits == { k \in 1..Len(FaqKeys) : In(FaqKeys[k], message_lower) }
        first == CHOOSE k \in hits : \A j \in hits : k <= j
    IN  IF escalated
        THEN ProductionAgent_finish(
                 [counted EXCEPT !.escalations = @ + 1],
                 Some(<< "I understand your frustration. Let me connect you with a human agent." >>),
                 TRUE, 90)
        ELSE IF hits /= {}
        THEN ProductionAgent_finish(counted, Some(<< FaqAnswers[first] >>),
                                    FALSE, 95)
        ELSE IF llm
        THEN [ at |-> "await", metrics |-> counted, response |-> NoResponse,
               escalated |-> FALSE, confidence |-> 30 ]
        ELSE LET answer == OrFallback([text |-> NoResponse, confidence |-> 30],
                                      message_lower)
             IN  ProductionAgent_finish(counted, answer.text, FALSE,
                                        answer.confidence)

\* process_message from the await of line 96 to its return
ProductionAgent_resume(met, message, outcome) ==
    LET message_lower == lower(message)
        reply == ProductionAgent_get_llm_response(outcome)
        answer ==
            IF reply.raised
            THEN [ text |-> Some(ProductionAgent_get_fallback_response(message_lower)),
                   confidence |-> 60 ]
            ELSE [ text |-> Some(reply.text), confidence |-> 85 ]
        final == OrFallback(answer, message_lower)
    IN  ProductionAgent_finish(met, final.text, FALSE, final.confidence)

\* get_metrics, success_rate as numerator and denominator
ProductionAgent_get_metrics ==
    [ total_requests       |-> metrics.total_requests,
      successful_responses |-> metrics.successful_responses,
      escalations          |-> metrics.escalations,
      errors               |-> metrics.errors,
      success_rate         |-> << metrics.successful_responses,
                                  IF metrics.total_requests > 1
                                  THEN metrics.total_requests ELSE 1 >> ]

NewCall(message) ==
    [ at |-> "new", message |-> message, generation |-> "not_called",
      response |-> NoResponse, escalated |-> FALSE, confidence |-> 0 ]

Returned(call, result, generation) ==
    [ call EXCEPT !.at = result.at, !.generation = generation,
                  !.response = result.response,
                  !.escalated = result.escalated,
                  !.confidence = result.confidence ]

\* POST /chat: the event loop runs call i up to its await or its return
ProcessMessage(i) ==
    /\ workflow = "api"
    /\ calls[i].at = "new"
    /\ LET result == ProductionAgent_process_message(metrics, calls[i].message,
                                                     use_llm)
       IN  /\ metrics' = result.metrics
           /\ calls' = [calls EXCEPT ![i] = Returned(@, result, "not_called")]
    /\ UNCHANGED <<runs, hashes, workflow, use_llm, state, pc, trace,
                   gen_outcome, in_except>>

\* the generation request of call i is over and the call runs to its return
LlmResponds(i) ==
    /\ workflow = "api"
    /\ calls[i].at = "await"
    /\ \E outcome \in GenOutcomes :
          LET result == ProductionAgent_resume(metrics, calls[i].message, outcome)
          IN  /\ metrics' = result.metrics
              /\ calls' = [calls EXCEPT ![i] = Returned(@, result, outcome.kind)]
    /\ UNCHANGED <<runs, hashes, workflow, use_llm, state, pc, trace,
                   gen_outcome, in_except>>

InitMetrics ==
    /\ workflow = "api"
    /\ use_llm \in BOOLEAN
    /\ state = SupportWorkflowState(None, << >>)
    /\ pc = "serving"
    /\ trace = << >>
    /\ gen_outcome = "not_called"
    /\ in_except = FALSE
    /\ runs = << >>
    /\ hashes = {}
    /\ metrics = NoMetrics
    /\ calls \in [CallIds -> { NewCall(m) : m \in ChatMessages }]

NextMetrics == \E i \in CallIds : ProcessMessage(i) \/ LlmResponds(i)

SpecMetrics == InitMetrics /\ [][NextMetrics]_vars

----------------------------------------------------------------------------
(* A stage that raises.  Every stage prints on entry, and all but          *)
(* handle_error and the error returns of validate_request print again      *)
(* after their assignments; print raises when stdout cannot encode or      *)
(* take the text.  The stages assign into the caller's dict, so what a     *)
(* stage wrote before raising stays written.                               *)

SupportNodes == {"validate", "categorize", "generate_response",
                 "check_escalation", "create_ticket", "send_response",
                 "handle_error"}

StageEffect(node, s, h) ==
    CASE node = "validate" -> validate_request(s)
      [] node = "categorize" -> categorize_request(s)
      [] node = "generate_response" -> generate_response(s)
      [] node = "check_escalation" -> check_escalation_needed(s)
      [] node = "create_ticket" -> create_ticket(s, h)
      [] node = "send_response" -> send_response(s)
      [] node = "handle_error" -> handle_error(s)

RaisePoints(node, s) ==
    IF node = "handle_error" THEN {"entry"}
    ELSE IF node = "validate" /\ Truthy(validate_request(s).error_message)
    THEN {"entry"}
    ELSE {"entry", "exit"}

WrittenBeforeRaise(node, s, h, at) ==
    IF at = "entry" THEN s ELSE StageEffect(node, s, h)

\* str(e) of the exception
ExceptionText == "[Errno 32] Broken pipe"

\* workflow.invoke: the exception leaves the compiled graph
GraphStageRaises ==
    /\ workflow = "graph"
    /\ pc \in SupportNodes
    /\ \E h \in HashValues, at \in RaisePoints(pc, state) :
          state' = WrittenBeforeRaise(pc, state, h, at)
    /\ trace' = Append(trace, pc)
    /\ pc' = "RAISED"
    /\ UNCHANGED <<metrics, calls, runs, hashes, workflow, use_llm,
                   gen_outcome, in_except>>

\* process_request: inside the try the except clause records the text and
\* calls handle_error; an exception of that call leaves process_request
MockStageRaises ==
    /\ workflow = "mock"
    /\ pc \in SupportNodes
    /\ \E h \in HashValues, at \in RaisePoints(pc, state) :
          LET written == WrittenBeforeRaise(pc, state, h, at)
          IN  IF in_except
              THEN /\ state' = written
                   /\ pc' = "RAISED"
              ELSE /\ state' = [written EXCEPT !.error_message = ExceptionText]
                   /\ pc' = "handle_error"
    /\ trace' = Append(trace, pc)
    /\ in_except' = TRUE
    /\ UNCHANGED <<metrics, calls, runs, hashes, workflow, use_llm,
                   gen_outcome>>

----------------------------------------------------------------------------

Init ==
    /\ workflow \in SupportExecutors \cup {"gemini", "agent"}
    /\ use_llm \in (IF workflow \in SupportExecutors THEN {FALSE} ELSE BOOLEAN)
    /\ \E r \in RequestIds, m \in Messages :
          state = SupportWorkflowState(
                     IF workflow \in SupportExecutors THEN r ELSE None, m)
    /\ pc = (CASE workflow \in SupportExecutors -> "validate"
               [] workflow = "gemini" -> "categorize"
               [] workflow = "agent" -> "validate_input")
    /\ trace = << >>
    /\ gen_outcome = "not_called"
    /\ in_except = FALSE
    /\ runs = << >>
    /\ hashes = {}
    /\ metrics = NoMetrics
    /\ calls = << >>

Next ==
    \/ Validate
    \/ Categorize
    \/ Respond
    \/ CheckEscalation
    \/ CreateTicket
    \/ SendResponse
    \/ HandleError
    \/ GeminiCategorize
    \/ GeminiSetPriority
    \/ GeminiGenerate
    \/ GeminiCheckEscalation
    \/ AgentValidate
    \/ AgentCategorize
    \/ AgentGenerate

Spec == Init /\ [][Next]_vars

\* one message for each path of a run: rejected as empty, blank, too
\* short and too long, accepted and not escalated, accepted and escalated
LiveMessages ==
    { << >>, <<" ">>, <<"x">>, Pad \o <<"H","i">>,
      <<"H","i">>,
      <<"p","a","s","s","w","o","r","d">>,
      <<"c","r","a","s","h">>,
      <<"M","a","n","a","g","e","r">> }

InitLive ==
    /\ workflow \in SupportExecutors \cup {"gemini", "agent"}
    /\ use_llm \in (IF workflow \in SupportExecutors THEN {FALSE} ELSE BOOLEAN)
    /\ \E r \in RequestIds, m \in LiveMessages :
          state = SupportWorkflowState(
                     IF workflow \in SupportExecutors THEN r ELSE None, m)
    /\ pc = (CASE workflow \in SupportExecutors -> "validate"
               [] workflow = "gemini" -> "categorize"
               [] workflow = "agent" -> "validate_input")
    /\ trace = << >>
    /\ gen_outcome = "not_called"
    /\ in_except = FALSE
    /\ runs = << >>
    /\ hashes = {}
    /\ metrics = NoMetrics
    /\ calls = << >>

\* workflow.invoke and process_request run to their return: a stage that
\* can be called is called
SpecLive == InitLive /\ [][Next]_vars /\ WF_vars(Next)

\* the same runs, with stages that may raise
NextFault ==
    \/ Next
    \/ GraphStageRaises
    \/ MockStageRaises

SpecFault == Init /\ [][NextFault]_vars

----------------------------------------------------------------------------
(* hash(str) inside one interpreter process: unknown, but the same value   *)
(* every time the same process hashes the same string.  hashes holds the   *)
(* values drawn so far.                                                    *)

Processes == {"p1", "p2"}

HashKnown(proc, message) ==
    { e \in hashes : e.proc = proc /\ e.message = message }

PossibleHashes(proc, message) ==
    IF HashKnown(proc, message) = {} THEN HashValues
    ELSE { e.value : e \in HashKnown(proc, message) }

Hashed(proc, message, h) ==
    hashes \cup { [proc |-> proc, message |-> message, value |-> h] }

----------------------------------------------------------------------------
(* Several requests in flight at once, each with its own state dict:       *)
(* process_request builds a new SupportWorkflowState per call (lines       *)
(* 235-245) and so does the loop around workflow.invoke (lines 296-306).   *)

RunIds == {1, 2}

RunMessages ==
    { <<"x">>,
      <<"p","a","s","s","w","o","r","d">>,
      <<"c","r","a","s","h">>,
      <<"M","a","n","a","g","e","r">> }

NewRun(executor, proc, request_id, user_message) ==
    [ executor |-> executor,
      proc     |-> proc,
      input    |-> [request_id |-> request_id, user_message |-> user_message],
      state    |-> SupportWorkflowState(request_id, user_message),
      pc       |-> "validate",
      trace    |-> << >> ]

NewRuns ==
    { NewRun(e, p, r, m) : e \in SupportExecutors, p \in Processes,
                           r \in RequestIds, m \in RunMessages }

ExecutorNext(executor, node, s) ==
    IF executor = "graph" THEN GraphNext(node, s) ELSE MockNext(node, s)

\* every run keeps its stages' assignments in a dict of its own
WriteBack_SharedDict(rs, i, node, after) ==
    [j \in DOMAIN rs |->
        IF j = i
        THEN [rs[j] EXCEPT !.state = after,
                           !.pc = ExecutorNext(rs[i].executor, node, after),
                           !.trace = Append(rs[i].trace, node)]
        ELSE [rs[j] EXCEPT !.state = after]]

\* run i has executed `node`, which left `after` in the dict of run i
WriteBack(rs, i, node, after) ==
    [rs EXCEPT ![i] = [@ EXCEPT !.state = after,
                                !.pc = ExecutorNext(rs[i].executor, node, after),
                                !.trace = Append(rs[i].trace, node)]]

RunsStage(i, node) ==
    /\ workflow = "runs"
    /\ runs[i].pc = node
    /\ \E h \in PossibleHashes(runs[i].proc, runs[i].state.user_message) :
          /\ runs' = WriteBack(runs, i, node, StageEffect(node, runs[i].state, h))
          /\ hashes' = IF node = "create_ticket"
                       THEN Hashed(runs[i].proc, runs[i].state.user_message, h)
                       ELSE hashes
    /\ UNCHANGED <<metrics, calls, workflow, use_llm, state, pc, trace,
                   gen_outcome, in_except>>

InitRuns ==
    /\ workflow = "runs"
    /\ use_llm = FALSE
    /\ state = SupportWorkflowState(None, << >>)
    /\ pc = "runs"
    /\ trace = << >>
    /\ gen_outcome = "not_called"
    /\ in_except = FALSE
    /\ runs \in [RunIds -> NewRuns]
    /\ runs[1].proc = "p1"
    /\ runs[1].input.request_id = "REQ001"
    /\ hashes = {}
    /\ metrics = NoMetrics
    /\ calls = << >>

NextRuns == \E i \in RunIds, node \in SupportNodes : RunsStage(i, node)

SpecRuns == InitRuns /\ [][NextRuns]_vars

----------------------------------------------------------------------------
(* One stage applied to an arbitrary state dict *)

StageCategories == {None, "authentication", "billing", "technical",
                    "complaint", "general"}

StagePriorities == {None, "low", "medium", "high", "urgent"}

StageResponses ==
    { NoResponse, Some(<< >>), Some(<< SupportTemplates["general"] >>) }

StageInputs ==
    { [ request_id     |-> "REQ001",
        user_message   |-> m,
        category       |-> c,
        priority       |-> p,
        response       |-> r,
        escalated      |-> e,
        ticket_created |-> FALSE,
        error_message  |-> None,
        step_count     |-> 3 ] :
      m \in { <<"H","i">>, <<"M","a","n","a","g","e","r">> },
      c \in StageCategories, p \in StagePriorities,
      r \in StageResponses, e \in BOOLEAN }

ApplyStage(node) ==
    /\ workflow = "stage"
    /\ pc = node
    /\ \E h \in HashValues : state' = StageEffect(node, state, h)
    /\ trace' = Append(trace, node)
    /\ pc' = "applied"
    /\ UNCHANGED <<metrics, calls, runs, hashes, workflow, use_llm,
                   gen_outcome, in_except>>

InitStage ==
    /\ workflow = "stage"
    /\ use_llm = FALSE
    /\ state \in StageInputs
    /\ pc \in SupportNodes
    /\ trace = << >>
    /\ gen_outcome = "not_called"
    /\ in_except = FALSE
    /\ runs = << >>
    /\ hashes = {}
    /\ metrics = NoMetrics
    /\ calls = << >>

NextStage == \E node \in SupportNodes : ApplyStage(node)

SpecStage == InitStage /\ [][NextStage]_vars

----------------------------------------------------------------------------
(* The compiled graph with a cycle: send_response wired back to validate   *)
(* instead of END.  workflow.invoke is called without a config, so the     *)
(* only limit is the graph library's default recursion limit.              *)

RecursionLimit == 25

CyclicGraphNext(node, s) ==
    IF node = "send_response" THEN "validate" ELSE GraphNext(node, s)

CyclicStage ==
    /\ workflow = "cyclic_graph"
    /\ pc \in SupportNodes
    /\ Len(trace) < RecursionLimit
    /\ \E h \in PossibleHashes("p1", state.user_message) :
          /\ state' = StageEffect(pc, state, h)
          /\ hashes' = IF pc = "create_ticket"
                       THEN Hashed("p1", state.user_message, h)
                       ELSE hashes
    /\ trace' = Append(trace, pc)
    /\ pc' = CyclicGraphNext(pc, state')
    /\ UNCHANGED <<metrics, calls, runs, workflow, use_llm, gen_outcome,
                   in_except>>

CyclicStop ==
    /\ workflow = "cyclic_graph"
    /\ pc \in SupportNodes
    /\ Len(trace) = RecursionLimit
    /\ pc' = "GraphRecursionError"
    /\ UNCHANGED <<metrics, calls, runs, hashes, workflow, use_llm, state, trace,
                   gen_outcome, in_except>>

InitCyclic ==
    /\ workflow = "cyclic_graph"
    /\ use_llm = FALSE
    /\ \E r \in RequestIds, m \in RunMessages :
          state = SupportWorkflowState(r, m)
    /\ pc = "validate"
    /\ trace = << >>
    /\ gen_outcome = "not_called"
    /\ in_except = FALSE
    /\ runs = << >>
    /\ hashes = {}
    /\ metrics = NoMetrics
    /\ calls = << >>

NextCyclic ==
    \/ CyclicStage
    \/ CyclicStop

SpecCyclic == InitCyclic /\ [][NextCyclic]_vars

----------------------------------------------------------------------------
(* Properties *)

Support == workflow \in SupportExecutors

Ran(stage) == \E i \in 1..Len(trace) : trace[i] = stage

Finished == pc = "END"

PassesValidation(message) ==
    /\ Len(strip(message)) > 0
    /\ Len(message) >= 2
    /\ Len(message) <= 1000

HasEscalationKeyword(message) == AnyIn(EscalationWords, lower(message))

\* C1: an input that is empty, shorter than 2 or longer than 1000 characters
\* runs Validate then HandleError and nothing else, ends with error set, and
\* never gets a category or a priority.
C1_InvalidLengthTakesErrorPathOnly ==
    (Support /\ (Len(state.user_message) = 0
                    \/ Len(state.user_message) < 2
                    \/ Len(state.user_message) > 1000))
    => /\ state.category = None
       /\ state.priority = None
       /\ \A i \in 1..Len(trace) : trace[i] \in {"validate", "handle_error"}
       /\ Finished => /\ Truthy(state.error_message)
                      /\ trace = <<"validate", "handle_error">>

C1_Witness ==
    /\ Support
    /\ Finished
    /\ Len(state.user_message) > 1000
    /\ trace = <<"validate", "handle_error">>
    /\ Truthy(state.error_message)

\* C2 as stated: for inputs of any length, an escalation keyword, a complaint
\* or technical category, or a high or urgent priority means the run ends
\* with escalated and ticket_created both true.
C2_EscalationCauseEndsWithTicket ==
    (Support /\ Finished
        /\ (\/ HasEscalationKeyword(state.user_message)
            \/ state.category \in {"complaint", "technical"}
            \/ state.priority \in {"high", "urgent"}))
    => (state.escalated /\ state.ticket_created)

\* C2 amended: the same, for inputs that pass validation (not blank, 2 to
\* 1000 characters).
C2_ValidEscalationCauseEndsWithTicket ==
    (Support /\ Finished
        /\ PassesValidation(state.user_message)
        /\ (\/ HasEscalationKeyword(state.user_message)
            \/ state.category \in {"complaint", "technical"}
            \/ state.priority \in {"high", "urgent"}))
    => (state.escalated /\ state.ticket_created)

C2_Witness ==
    /\ Support
    /\ Finished
    /\ HasEscalationKeyword(state.user_message)
    /\ state.category = "general"
    /\ state.priority = "low"
    /\ state.escalated
    /\ state.ticket_created

\* C3: a stage that executes while error is set is HandleError, and
\* HandleError executes only while error is set.
C3_ErrorRunsOnlyHandleError ==
    [][ (Support /\ trace' /= trace)
            => /\ trace' = Append(trace, pc)
               /\ Truthy(state.error_message) <=> (pc = "handle_error") ]_vars

C3_Witness ==
    /\ Support
    /\ Finished
    /\ Truthy(state.error_message)
    /\ trace[Len(trace)] = "handle_error"

C4_Edge(from, to, after) ==
    \/ /\ from = "validate"
       /\ to = IF Truthy(after.error_message) THEN "handle_error" ELSE "categorize"
    \/ from = "categorize" /\ to = "generate_response"
    \/ from = "generate_response" /\ to = "check_escalation"
    \/ /\ from = "check_escalation"
       /\ to = IF after.escalated THEN "create_ticket" ELSE "send_response"
    \/ from = "create_ticket" /\ to = "send_response"
    \/ from \in {"send_response", "handle_error"} /\ to = "END"

\* C4: a run starts at Validate, each executed stage is followed along the
\* graph's edge chosen on the state the stage left, and END follows only
\* SendResponse or HandleError, after which nothing runs.
C4_RunFollowsGraphEdges ==
    /\ [](Support => /\ trace = << >> => pc = "validate"
                     /\ trace /= << >> => trace[1] = "validate")
    /\ [][ Support => /\ pc /= "END"
                      /\ trace' = Append(trace, pc)
                      /\ C4_Edge(pc, pc', state') ]_vars

C4_Witness ==
    /\ Support
    /\ Finished
    /\ trace = <<"validate", "categorize", "generate_response",
                 "check_escalation", "create_ticket", "send_response">>

\* C5: step_count always equals the number of stages executed so far, and
\* ends at 5, 6 or 2 for a clean, an escalated and a validation-error run.
C5_StepCountCountsStages ==
    Support
    => /\ state.step_count = Len(trace)
       /\ Finished =>
            state.step_count =
                (IF Ran("handle_error") THEN 2
                 ELSE IF Ran("create_ticket") THEN 6 ELSE 5)

\* C6: ticket_created implies escalated, and CreateTicket is only ever about
\* to run when escalated is true.
C6_TicketOnlyWhenEscalated ==
    Support
    => /\ state.ticket_created => state.escalated
       /\ pc = "create_ticket" => state.escalated

C6_Witness ==
    /\ Support
    /\ Finished
    /\ state.ticket_created
    /\ state.escalated

\* C7: once escalated is true it stays true for the rest of the run.
C7_EscalatedMonotonic ==
    [][ state.escalated => state'.escalated ]_vars

C7_Witness ==
    /\ state.escalated
    /\ Ran("check_escalation")
    /\ Ran("send_response")
    /\ Finished

\* C8: when the generation call fails (transport, status, no candidate, no
\* parts) generate_response returns normally with the template of the
\* category as response, and the remaining stages run.
C8_GenerationFailureFallsBack ==
    (workflow \in {"gemini", "agent"} /\ gen_outcome \in FailureKinds)
    => /\ pc /= "RAISED"
       /\ workflow = "gemini" =>
            /\ pc \in {"check_escalation", "END"}
            /\ state.response /= NoResponse
            /\ state.response[1][1] = GeminiTemplates[state.category]
            /\ pc = "check_escalation" => Len(state.response[1]) = 1
            /\ pc = "END" => trace = <<"categorize", "set_priority",
                                       "generate_response", "check_escalation">>
       /\ workflow = "agent" =>
            /\ pc = "END"
            /\ state.response = Some(<< AgentTemplates[state.category] >>)

C8_Witness ==
    /\ workflow = "gemini"
    /\ gen_outcome = "no_parts"
    /\ Finished
    /\ state.response /= NoResponse

PriorityTable ==
    [ complaint      |-> "urgent",
      technical      |-> "high",
      billing        |-> "high",
      authentication |-> "medium",
      general        |-> "low" ]

\* C9: after Categorize the category is one of the five labels and the
\* priority is the one the table gives for it.
C9_CategoryAndTablePriority ==
    (\/ Support /\ Ran("categorize")
     \/ workflow = "gemini" /\ Ran("set_priority"))
    => /\ state.category \in DOMAIN PriorityTable
       /\ state.priority = PriorityTable[state.category]

MatchesAny(words) == AnyIn(words, lower(state.user_message))

\* C10: the keyword groups are tried in the order authentication, billing,
\* technical, complaint, the first match decides and no match gives general;
\* a message with a technical and a complaint keyword is technical with
\* priority high, and its run ends escalated with a ticket.
C10_FirstMatchingGroupWins ==
    (Support /\ Ran("categorize"))
    => /\ MatchesAny(AuthWords) => state.category = "authentication"
       /\ (~MatchesAny(AuthWords) /\ MatchesAny(BillingWords))
            => state.category = "billing"
       /\ (~MatchesAny(AuthWords) /\ ~MatchesAny(BillingWords)
              /\ MatchesAny(TechnicalWords))
            => (state.category = "technical" /\ state.priority = "high")
       /\ (~MatchesAny(AuthWords) /\ ~MatchesAny(BillingWords)
              /\ ~MatchesAny(TechnicalWords) /\ MatchesAny(ComplaintWords))
            => state.category = "complaint"
       /\ (~MatchesAny(AuthWords) /\ ~MatchesAny(BillingWords)
              /\ ~MatchesAny(TechnicalWords) /\ ~MatchesAny(ComplaintWords))
            => state.category = "general"
       /\ (Finished /\ state.user_message = Req002Message)
            => /\ state.category = "technical"
               /\ state.priority = "high"
               /\ state.escalated
               /\ state.ticket_created

C10_Witness ==
    /\ Support
    /\ Finished
    /\ state.user_message = Req002Message
    /\ MatchesAny(TechnicalWords)
    /\ MatchesAny(ComplaintWords)
    /\ state.category = "technical"
    /\ state.ticket_created

----------------------------------------------------------------------------
(* Properties of C11 to C20 *)

Count(stage) == Cardinality({ i \in 1..Len(trace) : trace[i] = stage })

LastStage == trace[Len(trace)]

\* C11: a valid message with an authentication keyword and no escalation
\* keyword ends as authentication / medium, not escalated, without a ticket,
\* and with the password-reset template alone as response.
C11_AuthenticationRunEndsPlain ==
    (Support /\ Finished
        /\ PassesValidation(state.user_message)
        /\ MatchesAny(AuthWords)
        /\ ~HasEscalationKeyword(state.user_message))
    => /\ state.category = "authentication"
       /\ state.priority = "medium"
       /\ ~state.escalated
       /\ ~state.ticket_created
       /\ state.response = Some(<< "To reset your password, please click 'Forgot Password' on the login page and follow the instructions." >>)

C11_Witness ==
    /\ Support
    /\ Finished
    /\ MatchesAny(AuthWords)
    /\ MatchesAny(TechnicalWords)
    /\ ~HasEscalationKeyword(state.user_message)
    /\ state.category = "authentication"
    /\ ~state.escalated
    /\ Ran("send_response")

\* C12: the input "Hi" gets the too-short error at Validate, takes the error
\* path and ends with the apology as response, escalated, and no category.
C12_HiIsTooShort ==
    (Support /\ Finished /\ state.user_message = <<"H","i">>)
    => /\ state.error_message = "Message too short"
       /\ trace = <<"validate", "handle_error">>
       /\ state.response = Some(<< "I'm sorry, there was an issue processing your request: ",
                                   "Message too short",
                                   ". Please try again or contact support directly." >>)
       /\ state.escalated
       /\ state.category = None

\* C13: a HandleError that returns has put the apology with the error text
\* in response and set escalated, has left category, priority,
\* ticket_created, request_id and user_message alone, and is followed by END.
C13_HandleErrorEffect ==
    [][ (Support /\ pc = "handle_error" /\ trace' /= trace
            /\ pc' \notin {"RAISED", "handle_error"})
        => /\ pc' = "END"
           /\ state'.response =
                 Some(<< "I'm sorry, there was an issue processing your request: ",
                         state.error_message,
                         ". Please try again or contact support directly." >>)
           /\ state'.escalated
           /\ state'.category = state.category
           /\ state'.priority = state.priority
           /\ state'.ticket_created = state.ticket_created
           /\ state'.request_id = state.request_id
           /\ state'.user_message = state.user_message ]_vars

C13_Witness ==
    /\ Support
    /\ Finished
    /\ LastStage = "handle_error"
    /\ state.ticket_created
    /\ state.category = "technical"
    /\ Len(state.response[1]) = 3

C14_Before == OrEmpty(state.response)

\* C14: CreateTicket sets ticket_created and appends the ticket notice: the
\* response before it (the empty string when unset) is a prefix of the
\* response after it, followed by the notice and nothing else.
C14_CreateTicketAppends ==
    [][ (workflow = "stage" /\ pc = "create_ticket")
        => /\ state'.ticket_created
           /\ state'.response /= NoResponse
           /\ Len(state'.response[1]) = Len(C14_Before) + 4
           /\ SubSeq(state'.response[1], 1, Len(C14_Before)) = C14_Before
           /\ state'.response[1][Len(C14_Before) + 1] = "\n\nSupport ticket "
           /\ state'.response[1][Len(C14_Before) + 2] = "TICKET-"
           /\ state'.response[1][Len(C14_Before) + 4] =
                 " has been created. A human agent will contact you within 2 hours." ]_vars

C14_Witness ==
    /\ workflow = "stage"
    /\ trace = <<"create_ticket">>
    /\ state.ticket_created
    /\ Len(state.response[1]) = 5
    /\ state.response[1][1] = SupportTemplates["general"]

BothFinished == workflow = "runs" /\ \A i \in RunIds : runs[i].pc = "END"

TicketIdOf(s) ==
    LET text == s.response[1]
    IN  SubSeq(text, Len(text) - 2, Len(text) - 1)

\* C15: the ticket identifier depends on request_id alone: two runs with the
\* same request_id get the same identifier whatever their messages.
C15_TicketIdFromRequestId ==
    (BothFinished
        /\ runs[1].state.ticket_created /\ runs[2].state.ticket_created
        /\ runs[1].input.request_id = runs[2].input.request_id
        /\ runs[1].input.user_message /= runs[2].input.user_message)
    => TicketIdOf(runs[1].state) = TicketIdOf(runs[2].state)

\* C16: in one run CreateTicket and SendResponse each execute at most once,
\* and CreateTicket comes first when both do, also when a stage raises.
C16_SideEffectsOnceInOrder ==
    Support
    => /\ Count("create_ticket") <= 1
       /\ Count("send_response") <= 1
       /\ \A i, j \in 1..Len(trace) :
             (trace[i] = "create_ticket" /\ trace[j] = "send_response") => i < j

C16_Witness ==
    /\ Support
    /\ Finished
    /\ in_except
    /\ Count("create_ticket") = 1
    /\ Count("send_response") = 1
    /\ LastStage = "handle_error"

\* C17 as stated: every run that reaches END has executed SendResponse
\* exactly once, the runs through the error path included.
C17_EveryFinishedRunSent ==
    (Support /\ Finished) => Count("send_response") = 1

\* C17 amended: a run that reaches END without HandleError has executed
\* SendResponse exactly once, as its last stage; a run through HandleError
\* reaches END right after HandleError.
C17_FinishedRunSentUnlessError ==
    (Support /\ Finished)
    => /\ ~Ran("handle_error")
            => (Count("send_response") = 1 /\ LastStage = "send_response")
       /\ Ran("handle_error") => LastStage = "handle_error"

C17_Witness ==
    /\ Support
    /\ Finished
    /\ ~Ran("handle_error")
    /\ Ran("create_ticket")
    /\ LastStage = "send_response"

\* C18: two runs on the same user_message end with the same category,
\* priority, escalated and response, after the same stages.
C18_SameInputSameResult ==
    (BothFinished /\ runs[1].input.user_message = runs[2].input.user_message)
    => /\ runs[1].state.category = runs[2].state.category
       /\ runs[1].state.priority = runs[2].state.priority
       /\ runs[1].state.escalated = runs[2].state.escalated
       /\ runs[1].state.response = runs[2].state.response
       /\ runs[1].trace = runs[2].trace

\* C19: no run executes more than 14 stages, and a run stopped for running
\* too long is stopped as WorkflowOverrun.
C19_StepCeiling ==
    workflow = "cyclic_graph"
    => /\ Len(trace) <= 14
       /\ pc \notin (SupportNodes \cup {"END"}) => pc = "WorkflowOverrun"

HashFor(proc, message) ==
    IF HashKnown(proc, message) = {} THEN 0
    ELSE CHOOSE v \in PossibleHashes(proc, message) : TRUE

RECURSIVE Alone(_, _, _, _)
Alone(executor, node, s, h) ==
    IF node = "END" THEN s
    ELSE LET after == StageEffect(node, s, h)
         IN  Alone(executor, ExecutorNext(executor, node, after), after, h)

AloneResult(run) ==
    Alone(run.executor, "validate",
          SupportWorkflowState(run.input.request_id, run.input.user_message),
          HashFor(run.proc, run.input.user_message))

\* C20: with runs interleaved in any order, a finished run has the state it
\* would have had running alone, and a stage of one run changes nothing of
\* another run.
C20_RunsDoNotInterfere ==
    /\ [](workflow = "runs"
            => \A i \in RunIds :
                  runs[i].pc = "END" => runs[i].state = AloneResult(runs[i]))
    /\ [][ workflow = "runs"
            => \A i \in RunIds :
                  runs'[i] /= runs[i]
                    => \A j \in RunIds \ {i} : runs'[j] = runs[j] ]_vars

C20_Witness ==
    /\ BothFinished
    /\ runs[1].input.user_message /= runs[2].input.user_message
    /\ runs[1].executor /= runs[2].executor
    /\ runs[1].state.ticket_created
    /\ ~runs[2].state.ticket_created

----------------------------------------------------------------------------
(* Properties of C21 to C30 *)

\* C21: no failure of a stage leaves the executor: whichever stage raises,
\* the run ends at END, never with an exception at the caller, and its final
\* state has the failure text as error, the apology as response and
\* escalated set.
C21_NoFailureEscapes ==
    Support
    => /\ pc /= "RAISED"
       /\ (Finished /\ in_except)
            => /\ state.error_message = ExceptionText
               /\ state.response = Some(Apology(ExceptionText))
               /\ state.escalated

\* C22: in the support workflow a message with an urgency keyword (urgent,
\* asap, critical) leaves Categorize with priority high, whatever category
\* it was given.
C22_UrgencyForcesHigh ==
    (Support /\ Ran("categorize") /\ MatchesAny(UrgencyWords))
    => state.priority = "high"

EscalationCause(s) ==
    \/ s.priority \in {"urgent", "high"}
    \/ s.category \in {"complaint", "technical"}
    \/ HasEscalationKeyword(s.user_message)

\* C23: CheckEscalation applied to any state leaves escalated true when it
\* was true, sets it when priority is urgent or high, category is complaint
\* or technical, or the message has an escalation keyword, and leaves it
\* false otherwise.
C23_CheckEscalationNeverClears ==
    [][ (workflow = "stage" /\ pc = "check_escalation")
        => /\ state.escalated => state'.escalated
           /\ EscalationCause(state) => state'.escalated
           /\ (~state.escalated /\ ~EscalationCause(state))
                => ~state'.escalated ]_vars

\* the ticket notices the response holds, by the position of their first piece
NoticesIn(s) ==
    IF s.response = NoResponse THEN {}
    ELSE { SubSeq(s.response[1], i, i + 3) :
             i \in { k \in 1..(Len(s.response[1]) - 3) :
                       s.response[1][k] = "\n\nSupport ticket " } }

\* C24: once CreateTicket has appended the ticket notice, the response of
\* every later state of the run still contains that notice, after a late
\* failure and HandleError too.
C24_NoticeStays ==
    [][ Support => NoticesIn(state) \subseteq NoticesIn(state') ]_vars

\* C25: in a run of the support workflow category and priority are written
\* by Categorize only and once: a step that is not Categorize leaves both
\* alone, neither changes once category is set, Categorize executes at most
\* once, priority is never set while category is unset, and no step changes
\* request_id or user_message.
C25_LabelsWrittenOnceByCategorize ==
    /\ [](Support => /\ (state.category = None => state.priority = None)
                     /\ Count("categorize") <= 1)
    /\ [][ Support
            => /\ (pc /= "categorize" \/ state.category /= None)
                    => /\ state'.category = state.category
                       /\ state'.priority = state.priority
               /\ state'.request_id = state.request_id
               /\ state'.user_message = state.user_message ]_vars

C25_Witness ==
    /\ workflow = "mock"
    /\ Finished
    /\ in_except
    /\ Count("categorize") = 1
    /\ Ran("create_ticket")
    /\ LastStage = "handle_error"
    /\ state.category = "technical"
    /\ state.priority = "high"

\* the edges of the graph, over the values has_error and should_escalate read
GraphEdges ==
    { <<n, GraphNext(n, [SupportWorkflowState("REQ001", << >>)
                            EXCEPT !.error_message = e, !.escalated = b])>> :
        n \in SupportNodes, e \in {None, "Message is empty"}, b \in BOOLEAN }

Successors(nodes) == { e[2] : e \in { d \in GraphEdges : d[1] \in nodes } }

RECURSIVE After(_, _)
After(nodes, k) ==
    IF k = 0 THEN {}
    ELSE Successors(nodes) \cup After(Successors(nodes), k - 1)

\* the nodes on a path of one edge or more from node
ReachableFrom(node) == After({node}, Cardinality(SupportNodes) + 1)

\* every node on a path from validate has END on a path from it and is on
\* no cycle
PathsEndWithoutCycle ==
    \A node \in {"validate"} \cup (ReachableFrom("validate") \ {"END"}) :
        /\ "END" \in ReachableFrom(node)
        /\ node \notin ReachableFrom(node)

\* C26: a run of the support workflow terminates: every node on a path from
\* Validate has END on a path from it and is on no cycle, no stage executes
\* twice in a run, a run executes at most 6 stages, and it reaches END.
C26_SupportRunTerminates ==
    /\ [](Support
            => /\ PathsEndWithoutCycle
               /\ \A stage \in SupportNodes : Count(stage) <= 1
               /\ Len(trace) <= 6)
    /\ (Support ~> Finished)

C26_Witness ==
    /\ workflow = "graph"
    /\ Finished
    /\ Len(trace) = 6
    /\ \A stage \in SupportNodes \ {"handle_error"} : Count(stage) = 1

SameRequestTwoExecutors ==
    /\ workflow = "runs"
    /\ runs[1].executor /= runs[2].executor
    /\ runs[1].proc = runs[2].proc
    /\ runs[1].input = runs[2].input

\* C28: process_request and the compiled graph are equivalent: on the same
\* request_id and user_message, in one interpreter process and with no stage
\* raising, both execute the same stages in the same order and end with the
\* same state in all nine fields.
C28_MockEqualsGraph ==
    SameRequestTwoExecutors
    => /\ \A k \in 1..Len(runs[1].trace) :
             k <= Len(runs[2].trace) => runs[1].trace[k] = runs[2].trace[k]
       /\ BothFinished => /\ runs[1].trace = runs[2].trace
                          /\ runs[1].state = runs[2].state

C28_Witness ==
    /\ SameRequestTwoExecutors
    /\ BothFinished
    /\ runs[1].state.ticket_created
    /\ runs[1].state = runs[2].state
    /\ Len(runs[1].trace) = 6

Api == workflow = "api"

CallsAt(places) == Cardinality({ i \in CallIds : calls[i].at \in places })

\* C29: the metrics of ProductionAgent stay consistent over calls of
\* process_message interleaved at the await, failed generation requests
\* included: no counter decreases, every call that has started is counted
\* once in total_requests, every call that has ended is counted once in
\* successful_responses or once in errors and not in both, so
\* total_requests = successful_responses + errors when no call is in
\* flight, and escalations <= successful_responses.
C29_MetricsConsistent ==
    /\ [](Api =>
            LET m == ProductionAgent_get_metrics
            IN  /\ m.total_requests = CallsAt({"await", "returned", "HTTPException"})
                /\ m.successful_responses = CallsAt({"returned"})
                /\ m.errors = CallsAt({"HTTPException"})
                /\ CallsAt({"await"}) = 0
                     => m.total_requests = m.successful_responses + m.errors
                /\ m.escalations <= m.successful_responses)
    /\ [][ Api => /\ metrics'.total_requests >= metrics.total_requests
                  /\ metrics'.successful_responses >= metrics.successful_responses
                  /\ metrics'.escalations >= metrics.escalations
                  /\ metrics'.errors >= metrics.errors ]_vars

\* two calls are suspended at the await at once, after a call whose
\* generation request failed has returned
C29_Witness ==
    /\ Api
    /\ CallsAt({"await"}) >= 2
    /\ metrics.total_requests = 3
    /\ metrics.successful_responses = 1
    /\ metrics.errors = 0
    /\ \E i \in CallIds : /\ calls[i].at = "returned"
                           /\ calls[i].generation \in FailureKinds

EndsWithEscalationSentence(text) ==
    /\ Len(text) >= 1
    /\ << text[Len(text)] >> = EscalationSentence

\* C30: whatever the message and the outcome of the generation call (a
\* text, an empty text, no parts, a failure), GeminiWorkflow.run and
\* WorkflowAgent.run_workflow return a non-empty response, GeminiWorkflow.run
\* returns with category and priority set, and an escalated run has the
\* escalation sentence at the end of its response.
C30_ResponseNeverEmpty ==
    (workflow \in {"gemini", "agent"} /\ Finished)
    => /\ workflow = "gemini"
            => /\ TruthyText(state.response)
               /\ state.category /= None
               /\ state.priority /= None
               /\ state.escalated
                    => /\ state.response /= NoResponse
                       /\ EndsWithEscalationSentence(state.response[1])
       /\ workflow = "agent" => WorkflowAgent_run_workflow(state) /= << >>

====
